---- MODULE Spec2Model ----
(***************************************************************************)
(* Model of UniforBuffer (src/UniformBuffer.cpp): the byte vector buffer_, *)
(* the chunk offset padding_, the GL buffer name ubo_, and the part of the *)
(* GL server the class talks to (buffer names and their data stores).      *)
(***************************************************************************)
EXTENDS Integers, Sequences, FiniteSets, TLC

(* ---------------- bounds of the model ---------------- *)

\* number of Add calls made on the buffer
MaxAdds == 3
\* largest n of Add(float *, n): 5 floats are 20 bytes, more than a chunk
MaxArrayLen == 5
\* buffer names the GL server can hand out
MaxNames == 2
\* largest error code lodepng::decode and glewInit return (0 is success)
MaxErrorCode == 1

(* ---------------- program constants ---------------- *)

\* the 16 of CheckChunk / FinishChunk / AddToBuffer
ChunkSize == 16
\* sizeof(float) == sizeof(int)
SizeofScalar == 4

VARIABLES
    buffer_,    \* std::vector<unsigned char> buffer_
    padding_,   \* int padding_
    ubo_,       \* unsigned int ubo_
    alive,      \* the object is constructed and not yet destroyed
    generated,  \* GL: buffer names in use (glGenBuffers .. glDeleteBuffers)
    store,      \* GL: data store of the buffer object named ubo_
    released,   \* GL: number of glDeleteBuffers calls made on each name
    allocated,  \* history: names the Init calls of this buffer received
    members,    \* history: the values appended, with kind, offset and bytes
    last,       \* history: the operation executed last
    pc,         \* main.cpp: the Assert call site the start-up has reached
    env,        \* main.cpp: the values the asserted expressions read
    exitCode,   \* main.cpp: the status passed to exit(), -1 while running
    message     \* main.cpp: the call site whose error went to stderr

bufferVars == <<buffer_, padding_, ubo_, alive, generated, store, released,
                allocated, members, last>>

mainVars == <<pc, env, exitCode, message>>

vars == <<bufferVars, mainVars>>

Names == 1..MaxNames

\* the n of Add(float *, n): the arrays appended are longer than a chunk
ArrayLens == {MaxArrayLen}

Zeros(n) == [i \in 1..n |-> 0]

Ramp(n) == [i \in 1..n |-> i]

\* the raw bytes of a value of the given size, as memcpy reads them: byte i
\* of the value is i, so that no value byte reads as a padding byte
Data(size) == { Ramp(size) }

(* ---------------- UniforBuffer: layout ---------------- *)

\* the layout state the private helpers work on
Layout == [buffer_ |-> buffer_, padding_ |-> padding_]

\* FinishChunk with the loop started one byte late
FinishChunk_ShortPad(s) ==
    IF s.padding_ = 0
    THEN s
    ELSE [buffer_ |-> s.buffer_ \o Zeros(ChunkSize - s.padding_ - 1),
          padding_ |-> 0]

\* FinishChunk without the early return on padding_ == 0
FinishChunk_NoReturn(s) ==
    [buffer_ |-> s.buffer_ \o Zeros(ChunkSize - s.padding_),
     padding_ |-> 0]

FinishChunk(s) ==
    IF s.padding_ = 0
    THEN s
    ELSE [buffer_ |-> s.buffer_ \o
                      Zeros(IF s.padding_ < ChunkSize
                            THEN ChunkSize - s.padding_ ELSE 0),
          padding_ |-> 0]

\* CheckChunk comparing with >= instead of >
CheckChunk_Geq(s, n) ==
    IF s.padding_ + n >= ChunkSize THEN FinishChunk(s) ELSE s

\* CheckChunk that never finishes the chunk
CheckChunk_Never(s, n) == s

\* CheckChunk that lets a value run over one chunk boundary
CheckChunk_TwoChunks(s, n) ==
    IF s.padding_ + n > 2 * ChunkSize THEN FinishChunk(s) ELSE s

CheckChunk(s, n) ==
    IF s.padding_ + n > ChunkSize THEN FinishChunk(s) ELSE s

\* AddToBuffer without the modulo on padding_
AddToBuffer_NoMod(s, data) ==
    LET size == Len(data)
        c == CheckChunk(s, size)
    IN [buffer_ |-> c.buffer_ \o data,
        padding_ |-> c.padding_ + size]

\* AddToBuffer setting padding_ from the size alone
AddToBuffer_SizeOnly(s, data) ==
    LET size == Len(data)
        c == CheckChunk(s, size)
    IN [buffer_ |-> c.buffer_ \o data,
        padding_ |-> size % ChunkSize]

AddToBuffer(s, data) ==
    LET size == Len(data)
        c == CheckChunk(s, size)
    IN [buffer_ |-> c.buffer_ \o data,
        padding_ |-> (c.padding_ + size) % ChunkSize]

\* one Add call of the public interface: the value lands in the buffer and
\* the history records where
Add(kind, data) ==
    /\ alive
    /\ Len(members) < MaxAdds
    /\ LET r == AddToBuffer(Layout, data)
       IN /\ buffer_' = r.buffer_
          /\ padding_' = r.padding_
          /\ members' = Append(members,
                 [kind |-> kind,
                  offset |-> Len(r.buffer_) - Len(data),
                  data |-> data])
    /\ last' = "Add"
    /\ UNCHANGED <<ubo_, alive, generated, store, released, allocated>>
    /\ UNCHANGED mainVars

AddScalar == \E d \in Data(SizeofScalar) : Add("scalar", d)

AddArray ==
    \E n \in ArrayLens :
        Add("array", Ramp(n * SizeofScalar))

AddVec3 == \E d \in Data(3 * SizeofScalar) : Add("vec3", d)

AddVec4 == \E d \in Data(4 * SizeofScalar) : Add("vec4", d)

AddMat4 == \E d \in Data(16 * SizeofScalar) : Add("mat4", d)

DoFinishChunk ==
    /\ alive
    /\ LET r == FinishChunk(Layout)
       IN /\ buffer_' = r.buffer_
          /\ padding_' = r.padding_
    /\ last' = "FinishChunk"
    /\ UNCHANGED <<ubo_, alive, generated, store, released, allocated,
                   members>>
    /\ UNCHANGED mainVars

(* ---------------- UniforBuffer: device side ---------------- *)

\* a buffer object before its first glBufferData
EmptyStore == [data |-> <<>>, usage |-> "STATIC_DRAW"]

GetId == ubo_

Init ==
    /\ alive
    /\ \E name \in Names \ generated :
        /\ ubo_' = name
        /\ generated' = generated \cup {name}
        /\ store' = EmptyStore
        /\ allocated' = Append(allocated, name)
    /\ last' = "Init"
    /\ UNCHANGED <<buffer_, padding_, alive, released, members>>
    /\ UNCHANGED mainVars

\* Clear that empties the byte vector and forgets to reset padding_
Clear_KeepsPadding ==
    /\ alive
    /\ buffer_' = <<>>
    /\ padding_' = padding_
    /\ members' = <<>>
    /\ last' = "Clear"
    /\ UNCHANGED <<ubo_, alive, generated, store, released, allocated>>
    /\ UNCHANGED mainVars

\* Clear is declared outside src/UniformBuffer.cpp: it empties the byte
\* sequence and resets the chunk offset, and keeps the device handle
Clear ==
    /\ alive
    /\ buffer_' = <<>>
    /\ padding_' = 0
    /\ members' = <<>>
    /\ last' = "Clear"
    /\ UNCHANGED <<ubo_, alive, generated, store, released, allocated>>
    /\ UNCHANGED mainVars

\* SendToDevice passing padding_ as the size of the upload
SendToDevice_WrongSize ==
    /\ alive
    /\ store' = IF ubo_ \in generated
                THEN [data |-> SubSeq(buffer_, 1, padding_),
                      usage |-> "DYNAMIC_DRAW"]
                ELSE store
    /\ last' = "SendToDevice"
    /\ UNCHANGED <<buffer_, padding_, ubo_, alive, generated, released,
                   allocated, members>>
    /\ UNCHANGED mainVars

SendToDevice ==
    /\ alive
    /\ store' = IF ubo_ \in generated
                THEN [data |-> buffer_, usage |-> "DYNAMIC_DRAW"]
                ELSE store
    /\ last' = "SendToDevice"
    /\ UNCHANGED <<buffer_, padding_, ubo_, alive, generated, released,
                   allocated, members>>
    /\ UNCHANGED mainVars

Destroy ==
    /\ alive
    /\ alive' = FALSE
    /\ IF ubo_ # 0
       THEN /\ generated' = generated \ {ubo_}
            /\ released' = [released EXCEPT ![ubo_] = @ + 1]
       ELSE UNCHANGED <<generated, released>>
    /\ last' = "Destroy"
    /\ UNCHANGED <<buffer_, padding_, ubo_, store, allocated, members>>
    /\ UNCHANGED mainVars

(* ---------------- specification ---------------- *)

Construct ==
    /\ buffer_ = <<>>
    /\ padding_ = 0
    /\ ubo_ = 0
    /\ alive = TRUE
    /\ generated = {}
    /\ store = EmptyStore
    /\ released = [n \in Names |-> 0]
    /\ allocated = <<>>
    /\ members = <<>>
    /\ last = "UniforBuffer"

Next ==
    \/ AddScalar
    \/ AddArray
    \/ AddVec3
    \/ AddVec4
    \/ AddMat4
    \/ DoFinishChunk
    \/ Init
    \/ SendToDevice
    \/ Destroy

\* main.cpp does not run while the buffer is exercised
MainIdle ==
    /\ pc = 0
    /\ env = [glfwInit |-> 1, window |-> 1, glew_error |-> 0, f |-> 1,
              err_empty |-> 1, ret |-> 1, thrown |-> 0,
              error_image |-> 0, error_hmap |-> 0]
    /\ exitCode = -1
    /\ message = "none"

\* a buffer has been constructed and main.cpp stays where it is
ConstructOnly == Construct /\ MainIdle

Spec == ConstructOnly /\ [][Next]_vars

\* the operations of a live buffer with Clear among them; the values
\* appended are a scalar, which never needs padding, and a vec3, which does
NextClear ==
    \/ AddScalar
    \/ AddVec3
    \/ DoFinishChunk
    \/ Clear
    \/ Init
    \/ SendToDevice

SpecClear == ConstructOnly /\ [][NextClear]_vars

(* ---------------- main.cpp: the Assert macro ---------------- *)

\* the C expressions passed to Assert, as syntax trees
Var(x) == [op |-> "var", name |-> x]
Const(v) == [op |-> "const", val |-> v]
Not(e) == [op |-> "not", arg |-> e]
And(l, r) == [op |-> "and", l |-> l, r |-> r]

RECURSIVE Eval(_, _)
\* the value of the C expression e, an int, under the values e reads
Eval(e, vals) ==
    CASE e.op = "var" -> vals[e.name]
      [] e.op = "const" -> e.val
      [] e.op = "not" -> IF Eval(e.arg, vals) = 0 THEN 1 ELSE 0
      [] e.op = "and" ->
            IF Eval(e.l, vals) # 0 /\ Eval(e.r, vals) # 0 THEN 1 ELSE 0

\* the test with the condition in parentheses: !(condition)
MacroTest_Parenthesized(condition) == Not(condition)

RECURSIVE MacroTest(_)
\* the test of the macro, `!condition`: the text of the argument follows
\* the `!` with no parentheses, and unary ! binds tighter than &&, so the
\* `!` applies to the leftmost operand of the argument
MacroTest(condition) ==
    IF condition.op = "and"
    THEN And(MacroTest(condition.l), condition.r)
    ELSE Not(condition)

\* the Assert call sites in the order main reaches them
Sites ==
    << [name |-> "main:glfwInit", condition |-> Var("glfwInit")],
       [name |-> "main:window", condition |-> Var("window")],
       [name |-> "main:glew", condition |-> Not(Var("glew_error"))],
       [name |-> "LoadConfiguration", condition |-> Var("f")],
       [name |-> "LoadStreetLamp",
        condition |-> And(Var("err_empty"), Var("ret"))],
       [name |-> "CreateShader", condition |-> Const(0)],
       [name |-> "LoadPNG:image", condition |-> Not(Var("error_image"))],
       [name |-> "LoadPNG:hmap", condition |-> Not(Var("error_hmap"))] >>

\* the values the asserted expressions can read
Envs ==
    [glfwInit : {0, 1}, window : {0, 1}, glew_error : 0..MaxErrorCode,
     f : {0, 1}, err_empty : {0, 1}, ret : {0, 1}, thrown : {0, 1},
     error_image : 0..MaxErrorCode, error_hmap : 0..MaxErrorCode]

\* the expansion of Assert(condition, ...) at call site i
AssertCall(i) ==
    /\ pc = i
    /\ exitCode = -1
    /\ IF Eval(MacroTest(Sites[i].condition), env) # 0
       THEN /\ message' = Sites[i].name
            /\ exitCode' = 1
            /\ pc' = pc
       ELSE /\ pc' = pc + 1
            /\ UNCHANGED <<exitCode, message>>
    /\ UNCHANGED env
    /\ UNCHANGED bufferVars

\* main: glfwInit, glfwCreateWindow, glewInit
MainInits == AssertCall(1) \/ AssertCall(2) \/ AssertCall(3)

LoadConfiguration == AssertCall(4)

LoadStreetLamp == AssertCall(5)

\* the Assert of CreateShader is in the catch block
CreateShader ==
    \/ /\ env.thrown = 1
       /\ AssertCall(6)
    \/ /\ env.thrown = 0
       /\ pc = 6
       /\ exitCode = -1
       /\ pc' = pc + 1
       /\ UNCHANGED <<env, exitCode, message>>
       /\ UNCHANGED bufferVars

LoadPNG == AssertCall(7) \/ AssertCall(8)

MainStart ==
    /\ pc = 1
    /\ env \in Envs
    /\ exitCode = -1
    /\ message = "none"

NextMain ==
    \/ MainInits
    \/ LoadConfiguration
    \/ LoadStreetLamp
    \/ CreateShader
    \/ LoadPNG

\* main is entered; the buffer variables stay as constructed
MainEntry == Construct /\ MainStart

\* the start-up of main.cpp; no UniforBuffer operation runs
SpecMain == MainEntry /\ [][NextMain]_vars

(* ---------------- helpers of the properties ---------------- *)

EmptyLayout == [buffer_ |-> <<>>, padding_ |-> 0]

RECURSIVE ReplayFrom(_, _)
\* the layout a run of Add calls alone produces from s
ReplayFrom(s, ms) ==
    IF ms = <<>>
    THEN s
    ELSE ReplayFrom(AddToBuffer(s, Head(ms).data), Tail(ms))

\* the layout is the one the Add calls made so far produce with no
\* FinishChunk call in between
AddOnly == Layout = ReplayFrom(EmptyLayout, members)

Kinds == [i \in 1..Len(members) |-> members[i].kind]

\* the sizes of the values the layout supports: scalar, vec3, vec4
ValueSizes == {SizeofScalar, 3 * SizeofScalar, 4 * SizeofScalar}

(* ---------------- C1 ---------------- *)

\* C1: in every state reachable by Add (scalar, vec3, vec4, mat4, float
\* array), FinishChunk, Init and SendToDevice calls, 0 <= padding_ < 16.
C1_PaddingInRange == 0 <= padding_ /\ padding_ < ChunkSize

\* an Add has wrapped padding_ around the chunk size
C1_Witness ==
    /\ last = "Add"
    /\ Len(members) = 2
    /\ members[1].kind = "vec4"
    /\ members[2].kind = "array"
    /\ Len(buffer_) = 4 * SizeofScalar + MaxArrayLen * SizeofScalar
    /\ padding_ = (MaxArrayLen * SizeofScalar) % ChunkSize

(* ---------------- C2 ---------------- *)

\* C2: immediately after any FinishChunk call, whatever Add calls preceded
\* it, padding_ is 0 and the length of buffer_ is a multiple of 16.
C2_FinishChunkAligns ==
    last = "FinishChunk" =>
        /\ padding_ = 0
        /\ Len(buffer_) % ChunkSize = 0

\* FinishChunk has padded three scalars to one chunk
C2_Witness ==
    /\ last = "FinishChunk"
    /\ Kinds = <<"scalar", "scalar", "scalar">>
    /\ Len(buffer_) = ChunkSize
    /\ padding_ = 0

(* ---------------- C3 ---------------- *)

\* what the claim says Add of the bytes d makes of the layout s
C3_Expected(s, d) ==
    LET over == s.padding_ + Len(d) > ChunkSize
        Z == IF over THEN Zeros(ChunkSize - s.padding_) ELSE <<>>
        c == IF over THEN 0 ELSE s.padding_
    IN [buffer_ |-> s.buffer_ \o Z \o d,
        padding_ |-> (c + Len(d)) % ChunkSize]

\* C3: from every reachable state, Add of a value of size 4, 12 or 16 yields
\* the old bytes, then (16 - padding_) zero bytes if padding_ + size > 16,
\* then the value, with padding_ = (c + size) mod 16; and vec3, vec3, float
\* on an empty buffer give 12 value, 4 zero, 12 value, 4 value bytes, to
\* which FinishChunk adds nothing.
C3_AddLayout ==
    /\ \A size \in ValueSizes : \A d \in Data(size) :
            AddToBuffer(Layout, d) = C3_Expected(Layout, d)
    /\ (AddOnly /\ Kinds = <<"vec3", "vec3", "scalar">>) =>
            /\ buffer_ = Ramp(12) \o Zeros(4) \o Ramp(12) \o Ramp(4)
            /\ Len(buffer_) = 32
            /\ FinishChunk(Layout) = Layout

\* vec3, vec3, float have been appended and the buffer finished
C3_Witness ==
    /\ last = "FinishChunk"
    /\ Kinds = <<"vec3", "vec3", "scalar">>
    /\ members[2].offset = ChunkSize
    /\ Len(buffer_) = 32

(* ---------------- C4 ---------------- *)

\* std140: base alignment and size of a member
Std140Align(kind) == IF kind = "scalar" THEN 4 ELSE 16

Std140Size(kind) ==
    CASE kind = "scalar" -> 4
      [] kind = "vec3" -> 12
      [] kind = "vec4" -> 16
      [] kind = "mat4" -> 64

RoundUp(o, a) == ((o + a - 1) \div a) * a

RECURSIVE Std140Offsets(_, _)
\* std140: the offsets of the members kinds, the first free byte being o
Std140Offsets(kinds, o) ==
    IF kinds = <<>>
    THEN <<>>
    ELSE LET at == RoundUp(o, Std140Align(Head(kinds)))
         IN <<at>> \o Std140Offsets(Tail(kinds), at + Std140Size(Head(kinds)))

RECURSIVE Std140End(_, _)
\* std140: the first free byte after the members kinds
Std140End(kinds, o) ==
    IF kinds = <<>>
    THEN o
    ELSE Std140End(Tail(kinds),
             RoundUp(o, Std140Align(Head(kinds))) + Std140Size(Head(kinds)))

\* std140: the size of the block made of the members kinds
Std140BlockSize(kinds) == RoundUp(Std140End(kinds, 0), 16)

\* the bytes of a std140 block: each member's bytes at its offset, zero
\* everywhere else
Std140Bytes(ms) ==
    LET kinds == [i \in 1..Len(ms) |-> ms[i].kind]
        offs == Std140Offsets(kinds, 0)
    IN [b \in 1..Std140BlockSize(kinds) |->
           IF \E i \in 1..Len(ms) :
                  offs[i] < b /\ b <= offs[i] + Len(ms[i].data)
           THEN LET i == CHOOSE i \in 1..Len(ms) :
                             offs[i] < b /\ b <= offs[i] + Len(ms[i].data)
                IN ms[i].data[b - offs[i]]
           ELSE 0]

SupportedOnly ==
    \A i \in 1..Len(members) :
        members[i].kind \in {"scalar", "vec3", "vec4", "mat4"}

\* C4: for every sequence of scalar, vec3, vec4 and mat4 values appended to
\* an empty buffer and followed by FinishChunk, the offset of every value,
\* the padding bytes and the total length are those of the std140 layout of
\* the same members.
C4_MatchesStd140 ==
    (AddOnly /\ SupportedOnly) =>
        /\ [i \in 1..Len(members) |-> members[i].offset]
               = Std140Offsets(Kinds, 0)
        /\ FinishChunk(Layout).buffer_ = Std140Bytes(members)

(* ---------------- C5 ---------------- *)

\* C5: a value of at most 16 bytes (scalar, vec3, vec4) that Add writes at
\* offset o with size s lies in one 16-byte chunk of buffer_:
\* o div 16 = (o + s - 1) div 16.
C5_NoStraddle ==
    \A i \in 1..Len(members) :
        LET o == members[i].offset
            s == Len(members[i].data)
        IN members[i].kind \in {"scalar", "vec3", "vec4"} =>
               /\ SubSeq(buffer_, o + 1, o + s) = members[i].data
               /\ o \div ChunkSize = (o + s - 1) \div ChunkSize

\* a vec3 that did not fit after another vec3 starts the next chunk
C5_Witness ==
    /\ last = "Add"
    /\ Kinds = <<"vec3", "vec3">>
    /\ members[2].offset = ChunkSize
    /\ Len(buffer_) = ChunkSize + 3 * SizeofScalar

(* ---------------- C6 ---------------- *)

\* the column c (0..3) of the matrix bytes m
Column(m, c) == SubSeq(m, 4 * SizeofScalar * c + 1, 4 * SizeofScalar * (c + 1))

\* four successive Add(vec4) calls on the columns of m
AddColumns(s, m) ==
    AddToBuffer(AddToBuffer(AddToBuffer(AddToBuffer(s,
        Column(m, 0)), Column(m, 1)), Column(m, 2)), Column(m, 3))

\* C6: from every reachable state, Add(mat4) as one 64-byte append gives
\* the buffer_ and padding_ of four Add(vec4) calls on the columns: the first
\* column starts at a multiple of 16, the columns follow each other with no
\* padding, and padding_ is 0 afterwards.
C6_Mat4AsColumns ==
    \A m \in Data(16 * SizeofScalar) :
        LET r == AddToBuffer(Layout, m)
            start == Len(r.buffer_) - Len(m)
        IN /\ r = AddColumns(Layout, m)
           /\ start % ChunkSize = 0
           /\ SubSeq(r.buffer_, start + 1, Len(r.buffer_)) = m
           /\ r.padding_ = 0

\* a mat4 has been appended to a buffer whose chunk was partly filled
C6_Witness ==
    /\ last = "Add"
    /\ Kinds = <<"scalar", "mat4">>
    /\ members[2].offset = ChunkSize
    /\ Len(buffer_) = ChunkSize + 16 * SizeofScalar
    /\ padding_ = 0

(* ---------------- C7 ---------------- *)

\* C7: FinishChunk twice in a row leaves the buffer_ and padding_ of
\* FinishChunk once, and FinishChunk on a state with padding_ = 0 changes
\* nothing.
C7_FinishChunkIdempotent ==
    /\ FinishChunk(FinishChunk(Layout)) = FinishChunk(Layout)
    /\ padding_ = 0 => FinishChunk(Layout) = Layout
    /\ last = "FinishChunk" => FinishChunk(Layout) = Layout

\* FinishChunk has run on a partly filled chunk, and a second call is due
C7_Witness ==
    /\ last = "FinishChunk"
    /\ Kinds = <<"vec3">>
    /\ Len(buffer_) = ChunkSize
    /\ padding_ = 0

(* ---------------- C8 ---------------- *)

\* C8: GetId returns 0 before Init has been called; once Init has allocated
\* a handle, GetId returns that same non-zero handle after any later
\* operation, a further Init included, until the buffer is destroyed.
C8_HandleStable ==
    alive => GetId = (IF allocated = <<>> THEN 0 ELSE allocated[1])

(* ---------------- C9 ---------------- *)

\* C9: when the destruction completes, every handle an Init call of this
\* buffer allocated has been released exactly once, and no handle has been
\* released if Init was never called.
C9_AllReleased ==
    ~alive =>
        \A n \in Names :
            released[n] =
                (IF \E i \in 1..Len(allocated) : allocated[i] = n
                 THEN 1 ELSE 0)

(* ---------------- C10 ---------------- *)

\* C10: after Init, every SendToDevice call makes the data store of the
\* buffer's handle equal to buffer_ in full (a zero-length store when
\* buffer_ is empty), and leaves buffer_, padding_ and ubo_ unchanged.
C10_SendUploads ==
    /\ [](last = "SendToDevice" /\ allocated # <<>> =>
             store = [data |-> buffer_, usage |-> "DYNAMIC_DRAW"])
    /\ [][last' = "SendToDevice" =>
             /\ buffer_' = buffer_
             /\ padding_' = padding_
             /\ ubo_' = ubo_]_vars

\* after Init, an upload has put the 20 bytes of buffer_ in the data store
C10_Witness ==
    /\ last = "SendToDevice"
    /\ ubo_ # 0
    /\ Kinds = <<"vec3", "scalar", "scalar">>
    /\ Len(buffer_) = ChunkSize + SizeofScalar
    /\ store.data = buffer_

(* ---------------- C11 ---------------- *)

\* runs of one or two Add calls, by the bytes appended
ReplaySamples ==
    LET D == { <<[data |-> Ramp(n * SizeofScalar)]>> : n \in {1, 3, 4, 16} }
    IN D \cup { a \o b : a \in D, b \in D }

\* C11: from every reachable state Clear leaves an empty byte sequence and
\* chunk offset 0 and keeps the device handle allocated and unchanged, so
\* that Add calls replayed after Clear produce the bytes they produce on a
\* freshly created buffer.
C11_ClearResets ==
    /\ [](last = "Clear" =>
             /\ buffer_ = <<>>
             /\ padding_ = 0
             /\ \A ms \in ReplaySamples :
                    ReplayFrom(Layout, ms) = ReplayFrom(EmptyLayout, ms))
    /\ []((last = "Add" /\ Len(members) = 1) =>
             Layout = ReplayFrom(EmptyLayout, members))
    /\ [][last' = "Clear" =>
             /\ ubo_' = ubo_
             /\ generated' = generated
             /\ released' = released
             /\ store' = store]_vars

\* two vec3 were uploaded, the buffer cleared, and one vec3 appended again
C11_Witness ==
    /\ last = "Add"
    /\ ubo_ # 0
    /\ ubo_ \in generated
    /\ store.data = Ramp(12) \o Zeros(4) \o Ramp(12)
    /\ Kinds = <<"vec3">>
    /\ buffer_ = Ramp(12)
    /\ padding_ = 12

(* ---------------- C13 ---------------- *)

\* C13: in every state reachable by Add calls of any size (float arrays
\* longer than 16 bytes and mat4 included) and FinishChunk calls, the length
\* of buffer_ modulo 16 equals padding_.
C13_LengthModChunk ==
    /\ Len(buffer_) % ChunkSize = padding_
    /\ \A n \in 0..MaxArrayLen :
           LET r == AddToBuffer(Layout, Ramp(n * SizeofScalar))
           IN Len(r.buffer_) % ChunkSize = r.padding_

\* a float array longer than a chunk has been appended after a scalar
C13_Witness ==
    /\ last = "Add"
    /\ Kinds = <<"scalar", "array">>
    /\ members[2].offset = ChunkSize
    /\ Len(buffer_) = ChunkSize + MaxArrayLen * SizeofScalar
    /\ padding_ = (MaxArrayLen * SizeofScalar) % ChunkSize
    /\ padding_ # 0

(* ---------------- C12 ---------------- *)

\* the Assert at call site i has been executed
Executed(i) ==
    /\ pc > i \/ (pc = i /\ exitCode # -1)
    /\ Sites[i].name = "CreateShader" => env.thrown = 1

\* the Assert at call site i has printed its message and exited with 1
Exited(i) == pc = i /\ exitCode = 1 /\ message = Sites[i].name

\* C12: Assert prints the error message and exits with status 1 exactly
\* when its condition argument is false, at every call site; in
\* LoadStreetLamp the program exits if and only if (err.empty() && ret) is
\* false.
C12_AssertExitsIffFalse ==
    \A i \in 1..Len(Sites) :
        Executed(i) => (Exited(i) <=> Eval(Sites[i].condition, env) = 0)

====
